---- MODULE Spec2Model ----
(***************************************************************************)
(* One run of AgentRouterWorkflow (app/workflows.py) with its two          *)
(* activities, retrieve_trajectory and launch_agent (app/activities.py),   *)
(* and the trajectory store reader/formatter (app/database.py).            *)
(*                                                                         *)
(* Text is a sequence of tokens (strings).  An objective is spelled one    *)
(* character per token so that trigram similarity is computed as pg_trgm   *)
(* computes it; tool names and instruction text are spelled in larger      *)
(* tokens, and Python's substring tests and str.replace act on tokens.     *)
(***************************************************************************)
EXTENDS Integers, Sequences, FiniteSets, TLC

\* Python's None, for the str-or-None values (org_id, trajectory.error).
None == "None"

----------------------------------------------------------------------------
\* Bounds of the model.

\* Largest number of rows of the trajectory table.
MaxStore == 2

----------------------------------------------------------------------------
\* Sequence helpers standing for Python's str operations.

Range(s) == {s[i] : i \in 1..Len(s)}

\* `pat in s` for str: pat occurs as a contiguous run of s.
Contains(s, pat) ==
    \E i \in 0..(Len(s) - Len(pat)) :
        \A j \in 1..Len(pat) : s[i + j] = pat[j]

StartsWith(s, pat) ==
    /\ Len(pat) <= Len(s)
    /\ \A j \in 1..Len(pat) : s[j] = pat[j]

\* str.replace(pat, ""): every non-overlapping occurrence, left to right.
RECURSIVE Remove(_, _)
Remove(s, pat) ==
    IF Len(s) = 0 THEN <<>>
    ELSE IF StartsWith(s, pat) THEN Remove(SubSeq(s, Len(pat) + 1, Len(s)), pat)
    ELSE <<Head(s)>> \o Remove(Tail(s), pat)

\* sep.join(parts) for a list of texts.
RECURSIVE Join(_, _)
Join(parts, sep) ==
    IF Len(parts) = 0 THEN <<>>
    ELSE IF Len(parts) = 1 THEN parts[1]
    ELSE parts[1] \o sep \o Join(Tail(parts), sep)

----------------------------------------------------------------------------
\* similarity(t.objective, :objective) of pg_trgm, for one-word objectives:
\* the word is padded with two blanks before and one after, and the score
\* is |common trigrams| / |all trigrams|, kept here as the pair
\* <<numerator, denominator>>.

Trigrams(word) ==
    LET p == <<" ", " ">> \o word \o <<" ">>
    IN  {SubSeq(p, i, i + 2) : i \in 1..(Len(p) - 2)}

similarity(a, b) ==
    <<Cardinality(Trigrams(a) \cap Trigrams(b)),
      Cardinality(Trigrams(a) \cup Trigrams(b))>>

\* similarity(...) > 0.1.  similarity returns real (float4) and 0.1 is a
\* numeric literal, so the store compares in double precision:
\* float8(float4(n/d)) > float8(0.1).  The float4 nearest to 1/10 is
\* 13421773 / 2^27, which lies above the double nearest to 0.1, and the
\* float4 below it is 13421772 / 2^27, which lies below.  So the test holds
\* exactly when n/d rounds to 13421773 / 2^27 or more, that is when
\* n/d > 13421772.5 / 2^27 = 26843545 / 2^28 (the tie rounds to the even
\* mantissa, down); a score of exactly 1/10 passes.
AboveThreshold(score) == score[1] * 268435456 > 26843545 * score[2]

\* score1 > score2, both with positive denominators
ScoreGreater(s1, s2) == s1[1] * s2[2] > s2[1] * s1[2]

ScoreEqual(s1, s2) == s1[1] * s2[2] = s2[1] * s1[2]

----------------------------------------------------------------------------
\* Rows of trajectory_event.  tool_req and result are the jsonb values
\* data->'event'->'tool_req' and data->'event'->'result' as the driver hands
\* them to Python:
\*   tool_req.shape  "null" (None), "dict", "str_bad" (a str that is not
\*                   JSON), "list" (a non-empty JSON array)
\*   result.shape    "null", "dict", "str" (a str that is not JSON)
\*   result.success_true   the text of result contains "success=True"

ToolReq(shape, has_name, tool_name, args) ==
    [shape |-> shape, has_name |-> has_name, tool_name |-> tool_name, args |-> args]

NoReq == ToolReq("null", FALSE, <<>>, <<>>)

ToolResult(shape, success_true, localizer, viewport, element) ==
    [shape |-> shape, success_true |-> success_true, localizer |-> localizer,
     viewport |-> viewport, element |-> element]

Event(index, type, kind, tool_req, result) ==
    [index |-> index, type |-> type, kind |-> kind, tool_req |-> tool_req,
     result |-> result]

AnswerOk(index) ==
    Event(index, "AgentEvent", "tool_result",
          ToolReq("dict", TRUE, <<"answer">>, <<"text">>),
          ToolResult("str", TRUE, "none", FALSE, FALSE))

AnswerBad(index) ==
    Event(index, "AgentEvent", "tool_result",
          ToolReq("dict", TRUE, <<"answer">>, <<"text">>),
          ToolResult("str", FALSE, "none", FALSE, FALSE))

Click(index) ==
    Event(index, "AgentEvent", "tool_result",
          ToolReq("dict", TRUE, <<"click", "_localizer", "_web">>, <<"element">>),
          ToolResult("dict", FALSE, "xy", TRUE, TRUE))

TypeText(index) ==
    Event(index, "AgentEvent", "tool_result",
          ToolReq("dict", TRUE, <<"type", "_web">>, <<"text">>),
          ToolResult("dict", FALSE, "none", FALSE, TRUE))

Scroll(index) ==
    Event(index, "AgentEvent", "tool_result",
          ToolReq("dict", TRUE, <<"scroll", "_web">>, <<>>),
          ToolResult("null", FALSE, "none", FALSE, FALSE))

\* A tool whose name contains "answer" and is not "answer".
Submit(index) ==
    Event(index, "AgentEvent", "tool_result",
          ToolReq("dict", TRUE, <<"submit_", "answer", "_web">>, <<"text">>),
          ToolResult("str", TRUE, "none", FALSE, FALSE))

\* A tool whose name holds the marker format_trajectory_as_instructions looks for.
Marked(index) ==
    Event(index, "AgentEvent", "tool_result",
          ToolReq("dict", TRUE, <<"## Similar Trajectory">>, <<>>),
          ToolResult("null", FALSE, "none", FALSE, FALSE))

\* A tool call, not a tool result: the events query leaves it out.
Call(index) ==
    Event(index, "AgentEvent", "tool_call",
          ToolReq("dict", TRUE, <<"click", "_web">>, <<>>),
          ToolResult("null", FALSE, "none", FALSE, FALSE))

\* A tool result without a request.
Bare(index) ==
    Event(index, "AgentEvent", "tool_result", NoReq,
          ToolResult("null", FALSE, "none", FALSE, FALSE))

\* A tool result whose request is a JSON array.
Malformed(index) ==
    Event(index, "AgentEvent", "tool_result",
          ToolReq("list", FALSE, <<>>, <<>>),
          ToolResult("null", FALSE, "none", FALSE, FALSE))

----------------------------------------------------------------------------
\* Rows of trajectory.

Trajectory(id, org_id, start_url, objective, status, error, headless, created_at, events) ==
    [id |-> id, org_id |-> org_id, start_url |-> start_url, objective |-> objective,
     status |-> status, error |-> error, headless |-> headless,
     created_at |-> created_at, events |-> events]

ObjA == <<"a", "b", "c", "d", "e">>
ObjC == <<"a", "b", "c", "d">>

Urls == {"https://x", "https://y"}

Objectives == {ObjA, ObjC}

\* X-User-Org as the request may carry it: absent, empty, the three
\* placeholders, and two organisations.
OrgIds == {None, "", "your-org-id-here", "test", "example", "orgA", "orgB"}

Catalog ==
    { Trajectory("t1", "orgA", "https://x", ObjA, "completed", None, "true", 1,
                 <<Call(1), Click(2), TypeText(3), AnswerOk(4)>>),
      Trajectory("t2", "orgB", "https://x", ObjA, "completed", None, "true", 2,
                 <<Scroll(1), AnswerOk(2)>>),
      Trajectory("t3", "orgA", "https://x", ObjC, "completed", None, "true", 3,
                 <<AnswerOk(1)>>),
      Trajectory("t4", "orgA", "https://x", ObjA, "failed", "boom", "true", 4,
                 <<Scroll(1), AnswerBad(2)>>),
      Trajectory("t5", "orgB", "https://y", ObjC, "completed", None, "true", 5,
                 <<Bare(1), TypeText(2), Malformed(3), AnswerOk(4)>>),
      Trajectory("t6", "orgB", "https://y", ObjC, "completed", None, "true", 6,
                 <<Bare(1), TypeText(2), AnswerOk(3)>>) }

Stores == {S \in SUBSET Catalog : Cardinality(S) <= MaxStore}

\* "axyz": one trigram of ten in common with "abcde", a similarity of 1/10.
ObjB == <<"a", "x", "y", "z">>
ObjQ == <<"q", "r">>

\* More rows, for the direct calls of retrieval: a tie with t1 on similarity,
\* a similarity of exactly 0.1, rows that miss one condition each, and a row
\* whose events are stored out of index order.
RetrieveCatalog ==
    Catalog \cup
    { Trajectory("t7", "orgA", "https://x", ObjA, "completed", None, "true", 7,
                 <<Scroll(1), AnswerOk(2)>>),
      Trajectory("t8", "orgA", "https://x", ObjB, "completed", None, "true", 8,
                 <<TypeText(1), AnswerOk(2)>>),
      Trajectory("t9", "orgA", "https://x", ObjA, "completed", None, "false", 9,
                 <<Scroll(1), AnswerOk(2)>>),
      Trajectory("t10", "orgA", "https://x", ObjA, "completed", "boom", "true", 10,
                 <<Scroll(1), AnswerOk(2)>>),
      Trajectory("t11", "orgA", "https://x", ObjA, "completed", None, "true", 11,
                 <<Scroll(1), AnswerBad(2)>>),
      Trajectory("t12", "orgA", "https://x", ObjA, "running", None, "true", 12,
                 <<Scroll(1), AnswerOk(2)>>),
      Trajectory("t13", "orgA", "https://x", ObjQ, "completed", None, "true", 13,
                 <<Scroll(1), AnswerOk(2)>>),
      Trajectory("t14", "orgA", "https://y", ObjC, "completed", None, "true", 14,
                 <<AnswerOk(3), TypeText(2), Click(1)>>),
      Trajectory("t15", "orgA", "https://x", ObjC, "completed", None, "true", 15,
                 <<Bare(1), Submit(2), AnswerOk(3)>>) }

RetrieveStores == {S \in SUBSET RetrieveCatalog : Cardinality(S) <= MaxStore}

----------------------------------------------------------------------------
\* TrajectoryDatabase.get_similar_trajectory: the two SQL statements.

\* EXISTS (...): an AgentEvent tool_result of the answer tool whose result
\* text is LIKE '%success=True%'.
HasSuccessfulAnswer(t) ==
    \E i \in 1..Len(t.events) :
        /\ t.events[i].type = "AgentEvent"
        /\ t.events[i].kind = "tool_result"
        /\ t.events[i].tool_req.shape = "dict"
        /\ t.events[i].tool_req.has_name
        /\ t.events[i].tool_req.tool_name = <<"answer">>
        /\ t.events[i].result.success_true

\* The WHERE clause without its org_id condition.
QualifiesAnyOrg(t, task_objective, start_url, org_id) ==
    /\ t.start_url = start_url
    /\ t.status = "completed"
    /\ t.error = None
    /\ t.headless = "true"
    /\ AboveThreshold(similarity(t.objective, task_objective))
    /\ HasSuccessfulAnswer(t)

\* The WHERE clause of the candidate query.
Qualifies(t, task_objective, start_url, org_id) ==
    /\ t.start_url = start_url
    /\ t.status = "completed"
    /\ t.error = None
    /\ t.headless = "true"
    /\ AboveThreshold(similarity(t.objective, task_objective))
    /\ t.org_id = org_id
    /\ HasSuccessfulAnswer(t)

Candidates(store, task_objective, start_url, org_id) ==
    {t \in store : Qualifies(t, task_objective, start_url, org_id)}

\* ORDER BY similarity DESC, created_at (ascending): the oldest first.
RanksBeforeOldestFirst(t, u, task_objective) ==
    LET st == similarity(t.objective, task_objective)
        su == similarity(u.objective, task_objective)
    IN  \/ ScoreGreater(st, su)
        \/ ScoreEqual(st, su) /\ t.created_at < u.created_at

\* ORDER BY similarity DESC, created_at DESC: t comes before u.
RanksBefore(t, u, task_objective) ==
    LET st == similarity(t.objective, task_objective)
        su == similarity(u.objective, task_objective)
    IN  \/ ScoreGreater(st, su)
        \/ ScoreEqual(st, su) /\ t.created_at > u.created_at

\* LIMIT 1: the rows fetchone() may return; none when there is no candidate,
\* several only when two candidates tie on both sort keys.
TopRows(store, task_objective, start_url, org_id) ==
    LET c == Candidates(store, task_objective, start_url, org_id)
    IN  {t \in c : \A u \in c : ~RanksBefore(u, t, task_objective)}

\* ORDER BY te.index: the rows in ascending index order.
RECURSIVE SortByIndex(_)
SortByIndex(rows) ==
    IF Len(rows) <= 1 THEN rows
    ELSE LET rest == SortByIndex(Tail(rows))
             e    == Head(rows)
             k    == Cardinality({i \in 1..Len(rest) : rest[i].index < e.index})
         IN  SubSeq(rest, 1, k) \o <<e>> \o SubSeq(rest, k + 1, Len(rest))

\* The events query: AgentEvent tool_result rows of the trajectory, ORDER BY index.
EventRows(t) ==
    SortByIndex(SelectSeq(t.events, LAMBDA e : e.type = "AgentEvent" /\ e.kind = "tool_result"))

----------------------------------------------------------------------------
\* TrajectoryDatabase.get_similar_trajectory: the formatting loop.

\* `not tool_req_data`, or a str that json.loads rejects: continue.
SkipsRequest(e) == e.tool_req.shape \in {"null", "str_bad"}

\* tool_req_data.get(...) on a value that is not a dict raises AttributeError.
RaisesOnEvent(e) == e.tool_req.shape = "list"

tool_name(e) == IF e.tool_req.has_name THEN e.tool_req.tool_name ELSE <<"unknown">>

\* tool_name == "answer" alone.
IsAnswerEqualOnly(name) == name = <<"answer">>

\* tool_name == "answer" or "answer" in tool_name
IsAnswer(name) == name = <<"answer">> \/ Contains(name, <<"answer">>)

\* tool_name.replace("_localizer_web", "").replace("_web", "")
simplified_name(name) == Remove(Remove(name, <<"_localizer", "_web">>), <<"_web">>)

\* action_details: the keys of args, then what the result adds.
AddKey(keys, k) == IF k \in Range(keys) THEN keys ELSE Append(keys, k)

action_details(e) ==
    LET r  == e.result
        a0 == e.tool_req.args
        a1 == IF r.shape = "dict" /\ r.localizer = "xy" THEN AddKey(a0, "coordinates") ELSE a0
        a2 == IF r.shape = "dict" /\ r.viewport THEN AddKey(a1, "viewport_size") ELSE a1
        a3 == IF r.shape = "dict" /\ r.element THEN AddKey(a2, "element") ELSE a2
    IN  a3

\* One entry of trajectory_steps: f"{step_num}. {simplified_name}({json.dumps(...)})"
StepLine(step_num, e) ==
    [num |-> step_num, name |-> simplified_name(tool_name(e)), details |-> action_details(e),
     index |-> e.index]

\* The loop with step_num counting every event row, skipped or not.
RECURSIVE trajectory_steps_raw_count(_, _)
trajectory_steps_raw_count(events, step_num) ==
    IF Len(events) = 0 THEN <<>>
    ELSE LET e == Head(events)
         IN  IF SkipsRequest(e) \/ IsAnswer(tool_name(e))
             THEN trajectory_steps_raw_count(Tail(events), step_num + 1)
             ELSE <<StepLine(step_num, e)>>
                  \o trajectory_steps_raw_count(Tail(events), step_num + 1)

\* The loop over the event rows, from step_num on.
RECURSIVE trajectory_steps(_, _)
trajectory_steps(events, step_num) ==
    IF Len(events) = 0 THEN <<>>
    ELSE LET e == Head(events)
         IN  IF SkipsRequest(e) \/ IsAnswer(tool_name(e))
             THEN trajectory_steps(Tail(events), step_num)
             ELSE <<StepLine(step_num, e)>> \o trajectory_steps(Tail(events), step_num + 1)

\* The text of one line.
LineText(line) ==
    <<ToString(line.num), ". ">> \o line.name \o <<"(">> \o line.details \o <<")">>

\* "\n".join(trajectory_steps)
StepsText(lines) ==
    Join([i \in 1..Len(lines) |-> LineText(lines[i])], <<"\n">>)

----------------------------------------------------------------------------
\* TrajectoryDatabase.get_similar_trajectory: control flow and error handling.

\* How one statement sent to the store ends: it succeeds, or the driver
\* raises.  OperationalError stands for every exception that is not a
\* ProgrammingError (connection lost, invalid uuid text, aborted
\* transaction).  ProgrammingError_missing is a ProgrammingError whose message
\* contains "does not exist"; ProgrammingError_other is any other one
\* (permission denied, syntax error).
DbOutcomes ==
    {"ok", "OperationalError", "ProgrammingError_missing", "ProgrammingError_other"}

\* The outcomes of the three statements of one invocation.
DbRuns == [ext : {"ok", "ProgrammingError_other"}, query : DbOutcomes, events : DbOutcomes]

\* What get_similar_trajectory does: it returns None (is_none) or a str
\* (value), or raises exc.  stmts are the statements it executed on the
\* store, in order; selected is the id of the row the candidate query returned.
Returned(value, stmts, selected) ==
    [raised |-> FALSE, exc |-> None, is_none |-> FALSE, value |-> value,
     stmts |-> stmts, selected |-> selected]

ReturnedNone(stmts, selected) ==
    [raised |-> FALSE, exc |-> None, is_none |-> TRUE, value |-> <<>>,
     stmts |-> stmts, selected |-> selected]

Raised(exc, stmts, selected) ==
    [raised |-> TRUE, exc |-> exc, is_none |-> TRUE, value |-> <<>>,
     stmts |-> stmts, selected |-> selected]

\* The two except clauses: a ProgrammingError is swallowed when its message
\* contains "does not exist" and re-raised otherwise; any other Exception is
\* swallowed.
OnException(exc, stmts, selected) ==
    IF exc = "ProgrammingError_other"
    THEN Raised(exc, stmts, selected)
    ELSE ReturnedNone(stmts, selected)

\* session.execute(CREATE EXTENSION IF NOT EXISTS pg_trgm): the statement is
\* sent however it ends, and any exception of it is passed over.  (stmts
\* lists the session.execute calls; the commit that follows a successful
\* one is not listed.)
ExtensionStatements(db) ==
    IF db.ext \in DbOutcomes THEN <<"CREATE EXTENSION">> ELSE <<>>

\* `not org_id`, then the placeholder list.
TenantGate(org_id) ==
    \/ org_id = None \/ org_id = ""
    \/ org_id \in {"your-org-id-here", "test", "example"}

\* From the events query on, for the row t of the candidate query.
FormatSelected(t, db, stmts) ==
    LET log == Append(stmts, "events query")
        events == EventRows(t)
    IN  IF db.events # "ok" THEN OnException(db.events, log, t.id)
        ELSE IF Len(events) = 0 THEN ReturnedNone(log, t.id)
        ELSE IF \E i \in 1..Len(events) : RaisesOnEvent(events[i])
             THEN OnException("AttributeError", log, t.id)
        ELSE Returned(StepsText(trajectory_steps(events, 1)), log, t.id)

\* From the candidate query on: one result for each row fetchone() may return.
QueryAndFormat(rows, db, stmts) ==
    LET log == Append(stmts, "candidate query")
    IN  IF db.query # "ok" THEN {OnException(db.query, log, None)}
        ELSE IF rows = {} THEN {ReturnedNone(log, None)}
        ELSE {FormatSelected(t, db, log) : t \in rows}

\* get_similar_trajectory with org_id as an optional filter: without an
\* org_id the candidate query runs over the trajectories of every tenant.
get_similar_trajectory_optional_org(store, task_objective, start_url, org_id, db) ==
    LET stmts == ExtensionStatements(db)
        open  == {t \in store : QualifiesAnyOrg(t, task_objective, start_url, org_id)}
        top   == {t \in open : \A u \in open : ~RanksBefore(u, t, task_objective)}
    IN  IF org_id = None \/ org_id = "" THEN QueryAndFormat(top, db, stmts)
        ELSE IF TenantGate(org_id) THEN {ReturnedNone(stmts, None)}
        ELSE QueryAndFormat(TopRows(store, task_objective, start_url, org_id), db, stmts)

\* The set of things one invocation can do, given how its statements end.
get_similar_trajectory(store, task_objective, start_url, org_id, db) ==
    LET stmts == ExtensionStatements(db)
    IN  IF TenantGate(org_id) THEN {ReturnedNone(stmts, None)}
        ELSE QueryAndFormat(TopRows(store, task_objective, start_url, org_id), db, stmts)

----------------------------------------------------------------------------
\* TrajectoryDatabase.format_trajectory_as_instructions

SimilarMarker == <<"## Similar Trajectory">>

\* One token for each `header +=` line (the warning sign that opens the
\* second one is left out).
header ==
    <<"\n# CRITICAL: Execute the reference trajectory EXACTLY\n\n",
      "DO NOT answer or make assumptions before executing ALL trajectory steps.\n\n",
      "You MUST:\n",
      "1. Execute EVERY step from the trajectory below with the provided coordinates\n",
      "2. Use multiple tool_calls in a SINGLE response to run many steps at once\n",
      "3. Wait for observations before answering\n",
      "4. ONLY answer after completing the trajectory and seeing the actual data\n\n",
      "## Reference Trajectory (execute with exact coordinates):\n\n">>

format_trajectory_as_instructions(trajectory) ==
    IF Len(trajectory) = 0 THEN <<>>
    ELSE IF Contains(trajectory, SimilarMarker) THEN trajectory
    ELSE header \o trajectory

----------------------------------------------------------------------------
\* activities.retrieve_trajectory

Task(objective, start_url) == [objective |-> objective, start_url |-> start_url]

\* retrieve_trajectory with the objective replaced by the instructions.
retrieve_trajectory_replaces(task, org_id, store, db) ==
    { IF g.raised
      THEN [raised |-> TRUE, exc |-> g.exc, value |-> task,
            stmts |-> g.stmts, selected |-> g.selected]
      ELSE IF ~g.is_none /\ Len(g.value) > 0
      THEN [raised |-> FALSE, exc |-> None,
            value |-> Task(format_trajectory_as_instructions(g.value), task.start_url),
            stmts |-> g.stmts, selected |-> g.selected]
      ELSE [raised |-> FALSE, exc |-> None, value |-> task,
            stmts |-> g.stmts, selected |-> g.selected]
      : g \in get_similar_trajectory(store, task.objective, task.start_url, org_id, db) }

\* retrieve_trajectory testing `trajectory is not None` and prepending the
\* header to whatever text it got.
retrieve_trajectory_injects_header(task, org_id, store, db) ==
    { IF g.raised
      THEN [raised |-> TRUE, exc |-> g.exc, value |-> task,
            stmts |-> g.stmts, selected |-> g.selected]
      ELSE IF ~g.is_none
      THEN [raised |-> FALSE, exc |-> None,
            value |-> Task(task.objective \o header \o g.value, task.start_url),
            stmts |-> g.stmts, selected |-> g.selected]
      ELSE [raised |-> FALSE, exc |-> None, value |-> task,
            stmts |-> g.stmts, selected |-> g.selected]
      : g \in get_similar_trajectory(store, task.objective, task.start_url, org_id, db) }

\* What one invocation of the activity can do: return `value` or raise.
retrieve_trajectory(task, org_id, store, db) ==
    { IF g.raised
      THEN [raised |-> TRUE, exc |-> g.exc, value |-> task,
            stmts |-> g.stmts, selected |-> g.selected]
      ELSE IF ~g.is_none /\ Len(g.value) > 0
      THEN [raised |-> FALSE, exc |-> None,
            value |-> Task(task.objective \o format_trajectory_as_instructions(g.value),
                           task.start_url),
            stmts |-> g.stmts, selected |-> g.selected]
      ELSE [raised |-> FALSE, exc |-> None, value |-> task,
            stmts |-> g.stmts, selected |-> g.selected]
      : g \in get_similar_trajectory(store, task.objective, task.start_url, org_id, db) }

----------------------------------------------------------------------------
\* activities.launch_agent

\* What client.post can meet:
\*   ReadTimeout     httpx.ReadTimeout, no response within the client timeout
\*   status_500      a response with a non-2xx status
\*   ok_json         a 2xx response whose body is JSON
\*   ok_undecodable  a 2xx response whose body is not JSON
Responses == {"ReadTimeout", "status_500", "ok_json", "ok_undecodable"}

Accepted(response) == response \in {"ok_json", "ok_undecodable"}

\* The JSON document the executor answers its n-th request with.
Body(n) == [trajectory_id |-> n]

\* str(e) of the httpx.HTTPError: the asynchronous read timeout carries no
\* message.
ErrorText(response) ==
    CASE response = "ReadTimeout"  -> ""
      [] response = "status_500"   -> "Server error '500 Internal Server Error' for url"

\* The request payload.
Payload(task, is_public) ==
    [task |-> Task(task.objective, task.start_url), is_public |-> is_public]

\* launch_agent without response.raise_for_status(): the body of a non-2xx
\* response is decoded and returned as a success.
launch_agent_no_status_check(task, is_public, response, n) ==
    CASE response = "ReadTimeout" ->
            [raised |-> FALSE, exc |-> None,
             value |-> [success |-> FALSE, error |-> ErrorText(response)]]
      [] response = "ok_undecodable" ->
            [raised |-> TRUE, exc |-> "JSONDecodeError",
             value |-> [success |-> FALSE, error |-> "JSONDecodeError"]]
      [] response \in {"status_500", "ok_json"} ->
            [raised |-> FALSE, exc |-> None,
             value |-> [success |-> TRUE, result |-> Body(n)]]

\* What the activity does when the executor answers its n-th request with
\* `response`: it returns `value` or raises exc.
launch_agent(task, is_public, response, n) ==
    CASE response = "ReadTimeout" ->
            \* client.post raises a TimeoutException, an HTTPError
            [raised |-> FALSE, exc |-> None,
             value |-> [success |-> FALSE, error |-> ErrorText(response)]]
      [] response = "status_500" ->
            \* raise_for_status raises HTTPStatusError, an HTTPError
            [raised |-> FALSE, exc |-> None,
             value |-> [success |-> FALSE, error |-> ErrorText(response)]]
      [] response = "ok_undecodable" ->
            \* response.json() raises JSONDecodeError, which is no HTTPError
            [raised |-> TRUE, exc |-> "JSONDecodeError",
             value |-> [success |-> FALSE, error |-> "JSONDecodeError"]]
      [] response = "ok_json" ->
            [raised |-> FALSE, exc |-> None,
             value |-> [success |-> TRUE, result |-> Body(n)]]

----------------------------------------------------------------------------
\* AgentRouterWorkflow.run: one run and the world it runs in.

\* RetryPolicy(maximum_attempts=...) of the two execute_activity calls.
\* A retrieval policy of one attempt more.
RetrieveMaxAttemptsOneMore == 3 + 1

RetrieveMaxAttempts == 3
LaunchMaxAttempts == 2

VARIABLES
    task,               \* run input: the task
    is_public,          \* run input
    org_id,             \* run input: None or the X-User-Org header
    store,              \* the rows of the trajectory table
    executor,           \* executor[n]: how the remote executor meets its n-th request
    pc,                 \* "retrieve", "launch", "returned" or "raised"
    retrieve_attempts,  \* attempts of retrieve_trajectory made so far
    launch_attempts,    \* attempts of launch_agent made so far
    enhanced_task,      \* what retrieve_trajectory returned
    result,             \* <<v>> once the run has returned v
    failure,            \* the activity whose ActivityError ended the run
    last_retrieve,      \* what the last finished retrieve_trajectory invocation did
    requests,           \* the launch requests sent, in order
    last_launch,        \* what the last finished launch_agent invocation did
    http,               \* what run_agent answered its caller
    call,               \* the function a direct call was made to, or None
    db_run,             \* how the statements of a direct call to retrieval ended
    events,             \* the trajectory_event rows handed to a direct call
    steps,              \* the trajectory_steps a direct call built
    wrap_in,            \* the text handed to format_trajectory_as_instructions
    wrapped             \* <<f(x), f(f(x))>> once it was applied twice

vars ==
    <<task, is_public, org_id, store, executor, pc, retrieve_attempts, launch_attempts,
      enhanced_task, result, failure, last_retrieve, requests, last_launch,
      http, call, db_run, events, steps, wrap_in, wrapped>>

inputs == <<task, is_public, org_id, store, executor>>

\* What the direct calls of the functions read and write.
direct == <<call, db_run, events, steps, wrap_in, wrapped>>

NoResponse == [status |-> 0]

NoDbRun == [ext |-> None, query |-> None, events |-> None]

\* No direct call was made.
NoDirectCall ==
    /\ call = None
    /\ db_run = NoDbRun
    /\ events = <<>>
    /\ steps = <<>>
    /\ wrap_in = <<>>
    /\ wrapped = <<>>

NoRetrieve(t) ==
    [raised |-> FALSE, exc |-> None, value |-> t, stmts |-> <<>>, selected |-> None]

NoLaunch ==
    [response |-> None, raised |-> FALSE, exc |-> None,
     value |-> [success |-> FALSE, error |-> None]]

Init ==
    /\ task \in {Task(o, u) : o \in Objectives, u \in Urls}
    /\ is_public \in BOOLEAN
    /\ org_id \in OrgIds
    /\ store \in Stores
    /\ executor \in [1..LaunchMaxAttempts -> Responses]
    /\ pc = "retrieve"
    /\ retrieve_attempts = 0
    /\ launch_attempts = 0
    /\ enhanced_task = task
    /\ result = <<>>
    /\ failure = None
    /\ last_retrieve = NoRetrieve(task)
    /\ requests = <<>>
    /\ last_launch = NoLaunch
    /\ http = NoResponse
    /\ NoDirectCall

\* execute_activity with a policy that never gives up: nothing is raised.
AfterFailedAttemptNeverRaises(activity, attempts, maximum) ==
    UNCHANGED <<pc, failure>>

\* execute_activity after a failed attempt: the engine schedules another
\* attempt while the policy allows one, and otherwise raises ActivityError
\* into run, which does not catch it.
AfterFailedAttempt(activity, attempts, maximum) ==
    IF attempts >= maximum
    THEN pc' = "raised" /\ failure' = activity
    ELSE UNCHANGED <<pc, failure>>

\* One attempt of retrieve_trajectory runs to its end.
RetrieveAttempt ==
    /\ pc = "retrieve"
    /\ retrieve_attempts < RetrieveMaxAttempts
    /\ \E db \in DbRuns : \E r \in retrieve_trajectory(task, org_id, store, db) :
        /\ retrieve_attempts' = retrieve_attempts + 1
        /\ last_retrieve' = r
        /\ IF r.raised
           THEN /\ AfterFailedAttempt("retrieve_trajectory", retrieve_attempts + 1,
                                      RetrieveMaxAttempts)
                /\ UNCHANGED enhanced_task
           ELSE /\ enhanced_task' = r.value
                /\ pc' = "launch"
                /\ UNCHANGED failure
    /\ UNCHANGED <<inputs, http, direct, launch_attempts, result, requests, last_launch>>

\* One attempt of retrieve_trajectory exceeds start_to_close_timeout (or its
\* worker dies): the engine counts a failed attempt.
RetrieveTimeout ==
    /\ pc = "retrieve"
    /\ retrieve_attempts < RetrieveMaxAttempts
    /\ retrieve_attempts' = retrieve_attempts + 1
    /\ AfterFailedAttempt("retrieve_trajectory", retrieve_attempts + 1, RetrieveMaxAttempts)
    /\ UNCHANGED <<inputs, http, direct, launch_attempts, enhanced_task, result, last_retrieve,
                   requests, last_launch>>

\* The next POST carrying the task run was given, not the one retrieval returned.
NextRequestOriginalTask ==
    LET n == Len(requests) + 1
    IN  [n |-> n, payload |-> Payload(task, is_public), response |-> executor[n]]

\* The request the next POST carries and how the executor meets it.
NextRequest ==
    LET n == Len(requests) + 1
    IN  [n |-> n, payload |-> Payload(enhanced_task, is_public), response |-> executor[n]]

\* One attempt of launch_agent runs to its end; run returns what it returned.
LaunchAttempt ==
    /\ pc = "launch"
    /\ launch_attempts < LaunchMaxAttempts
    /\ LET req == NextRequest
           r   == launch_agent(enhanced_task, is_public, req.response, req.n)
       IN  /\ requests' = Append(requests, req)
           /\ launch_attempts' = launch_attempts + 1
           /\ last_launch' = [response |-> req.response, raised |-> r.raised,
                              exc |-> r.exc, value |-> r.value]
           /\ IF r.raised
              THEN /\ AfterFailedAttempt("launch_agent", launch_attempts + 1,
                                         LaunchMaxAttempts)
                   /\ UNCHANGED result
              ELSE /\ result' = <<r.value>>
                   /\ pc' = "returned"
                   /\ UNCHANGED failure
    /\ UNCHANGED <<inputs, http, direct, retrieve_attempts, enhanced_task, last_retrieve>>

\* One attempt of launch_agent exceeds start_to_close_timeout (or its worker
\* dies), before or after its request was sent.
LaunchTimeout ==
    /\ pc = "launch"
    /\ launch_attempts < LaunchMaxAttempts
    /\ \E sent \in BOOLEAN :
        requests' = IF sent THEN Append(requests, NextRequest) ELSE requests
    /\ launch_attempts' = launch_attempts + 1
    /\ AfterFailedAttempt("launch_agent", launch_attempts + 1, LaunchMaxAttempts)
    /\ UNCHANGED <<inputs, http, direct, retrieve_attempts, enhanced_task, result, last_retrieve,
                   last_launch>>

Next ==
    \/ RetrieveAttempt
    \/ RetrieveTimeout
    \/ LaunchAttempt
    \/ LaunchTimeout

Spec == Init /\ [][Next]_vars

----------------------------------------------------------------------------
\* Properties of a run.

Terminated == pc \in {"returned", "raised"}

\* The tenant ids that stand for "no tenant".
NoTenant == {None, "", "your-org-id-here", "test", "example"}

\* The instruction text the trajectory t renders to.
InstructionsOf(t) ==
    format_trajectory_as_instructions(StepsText(trajectory_steps(EventRows(t), 1)))

\* The objective o is the run's objective, alone or followed by the
\* instructions of a trajectory of the run's tenant.
FromOwnTenant(o) ==
    \/ o = task.objective
    \/ \E t \in store : t.org_id = org_id /\ o = task.objective \o InstructionsOf(t)

\* C1: retrieval failure never aborts a run: whatever the retrieval attempts
\* do, the run does not end by the failure of retrieve_trajectory.
RetrievalNeverAbortsRun ==
    ~(pc = "raised" /\ failure = "retrieve_trajectory")

\* C2: tenant isolation: the row retrieval selected belongs to the run's
\* tenant, the objective handed to launch_agent (and every objective sent to
\* the executor) is the run's objective alone or followed by instructions of
\* a trajectory of the run's tenant, and with no tenant no row is selected
\* and no candidate query is made.
TenantIsolation ==
    /\ last_retrieve.selected # None =>
          \E t \in store : t.id = last_retrieve.selected /\ t.org_id = org_id
    /\ FromOwnTenant(enhanced_task.objective)
    /\ \A i \in 1..Len(requests) : FromOwnTenant(requests[i].payload.task.objective)
    /\ org_id \in NoTenant =>
          /\ last_retrieve.selected = None
          /\ "candidate query" \notin Range(last_retrieve.stmts)
          /\ enhanced_task.objective = task.objective

\* C2 witness: an enhanced objective was sent to the executor while the
\* store also held a trajectory of another tenant that matches the task.
TenantIsolationWitness ==
    /\ Len(requests) > 0
    /\ requests[1].payload.task.objective # task.objective
    /\ \E t \in store :
          /\ t.org_id # org_id
          /\ QualifiesAnyOrg(t, task.objective, task.start_url, org_id)

\* C3: an invocation of retrieval without a tenant executes no statement on
\* the store.
GateBeforeAnyStatement ==
    (org_id \in NoTenant /\ retrieve_attempts > 0) => last_retrieve.stmts = <<>>

\* C4: without a tenant, retrieve_trajectory returns the input task
\* unchanged, whatever the store holds.
NoTenantTaskUnchanged ==
    org_id \in NoTenant =>
        /\ ~last_retrieve.raised
        /\ last_retrieve.value.objective = task.objective
        /\ last_retrieve.value.start_url = task.start_url
        /\ enhanced_task = task

\* C4 witness: retrieval has returned for a run without a tenant while the
\* store holds a trajectory that matches the task.
NoTenantWitness ==
    /\ org_id \in NoTenant
    /\ pc = "launch"
    /\ last_retrieve.stmts # <<>>
    /\ enhanced_task = task
    /\ \E t \in store : QualifiesAnyOrg(t, task.objective, task.start_url, org_id)

\* C5: scenario C: when the executor answers 500 to every request, the run
\* returns {success: false, error: <non-empty>} after exactly
\* LaunchMaxAttempts requests.
ScenarioC ==
    (pc = "returned" /\ \A n \in 1..LaunchMaxAttempts : executor[n] = "status_500") =>
        /\ ~result[1].success
        /\ result[1].error # ""
        /\ Len(requests) = LaunchMaxAttempts

\* C6: scenario D: when the executor fails every request before the last
\* allowed one and accepts the last allowed one, the run returns
\* {success: true, result: <the payload of that answer>}.
ScenarioD ==
    ( /\ Terminated
      /\ launch_attempts > 0
      /\ \A n \in 1..(LaunchMaxAttempts - 1) : executor[n] \in {"ReadTimeout", "status_500"}
      /\ executor[LaunchMaxAttempts] = "ok_json" ) =>
        /\ pc = "returned"
        /\ result = <<[success |-> TRUE, result |-> Body(LaunchMaxAttempts)]>>

\* C7: no duplicate execution: no launch request follows one that the
\* executor accepted.
NoRequestAfterAccepted ==
    \A i, j \in 1..Len(requests) : i < j => ~Accepted(requests[i].response)

\* C8: retrieve_trajectory never raises for a store problem.
RetrieveNeverRaises ==
    ~last_retrieve.raised

LaunchExhaustionIsReturned ==
    (Terminated /\ launch_attempts = LaunchMaxAttempts
        /\ ~(pc = "returned" /\ result[1].success)) =>
        /\ pc = "returned"
        /\ DOMAIN result[1] = {"success", "error"}
        /\ ~result[1].success

----------------------------------------------------------------------------
\* api.run_agent: the public entry point around one run.

\* str(e) of the exception handle.result() raises for a failed run, and of
\* the one Client.connect or start_workflow raises.
WorkflowFailureText == "Workflow execution failed"
ConnectFailureText == "Failed client connect"

\* run_agent with `result` returned as it is, wrapper and all.
run_agent_returns_wrapper(ended, v) ==
    IF ended = "returned"
    THEN IF v.success
         THEN [status |-> 200, body |-> v]
         ELSE [status |-> 500, detail |-> v.error]
    ELSE [status |-> 500, detail |-> WorkflowFailureText]

\* What run_agent answers once handle.result() has ended: the run returned
\* v, or it raised.
run_agent(ended, v) ==
    IF ended = "returned"
    THEN IF v.success
         THEN [status |-> 200, body |-> v.result]
         ELSE [status |-> 500, detail |-> v.error]
    ELSE [status |-> 500, detail |-> WorkflowFailureText]

\* handle.result() ends and run_agent answers.
Respond ==
    /\ Terminated
    /\ http = NoResponse
    /\ http' = run_agent(pc, IF pc = "returned" THEN result[1] ELSE NoLaunch.value)
    /\ UNCHANGED <<inputs, direct, pc, retrieve_attempts, launch_attempts, enhanced_task,
                   result, failure, last_retrieve, requests, last_launch>>

\* Client.connect or start_workflow raises: no run is started.
StartFails ==
    /\ pc = "retrieve"
    /\ retrieve_attempts = 0
    /\ http = NoResponse
    /\ http' = [status |-> 500, detail |-> ConnectFailureText]
    /\ pc' = "unstarted"
    /\ UNCHANGED <<inputs, direct, retrieve_attempts, launch_attempts, enhanced_task,
                   result, failure, last_retrieve, requests, last_launch>>

\* Requests of two callers: one without a tenant, one of orgA.
InitApi ==
    /\ Init
    /\ org_id \in {None, "orgA"}

NextApi ==
    \/ StartFails
    \/ RetrieveAttempt
    \/ RetrieveTimeout
    \/ LaunchAttempt
    \/ LaunchTimeout
    \/ Respond

SpecApi == InitApi /\ [][NextApi]_vars

\* C11: the caller of run_agent receives the executor's response body
\* unchanged when the run returned success, and one error message with
\* status 500 in every other case; never the enhanced task or the
\* {success, result} wrapper.
CallerGetsBodyOrError ==
    http # NoResponse =>
        IF pc = "returned" /\ result[1].success
        THEN /\ requests[Len(requests)].response = "ok_json"
             /\ http = [status |-> 200, body |-> Body(Len(requests))]
             /\ "success" \notin DOMAIN http.body
             /\ http.body # enhanced_task
        ELSE /\ DOMAIN http = {"status", "detail"}
             /\ http.status = 500
             /\ http.detail \in {ErrorText("ReadTimeout"), ErrorText("status_500"),
                                 WorkflowFailureText, ConnectFailureText}

\* C11 witness: the run enhanced the task, the executor accepted it, and
\* the caller received the executor's body.
CallerGetsBodyWitness ==
    /\ http # NoResponse
    /\ http.status = 200
    /\ enhanced_task # task
    /\ pc = "returned"

----------------------------------------------------------------------------
\* Direct calls of retrieve_trajectory, over a larger store.

\* The run has not begun.
Fresh ==
    /\ pc = "retrieve"
    /\ retrieve_attempts = 0
    /\ launch_attempts = 0
    /\ enhanced_task = task
    /\ result = <<>>
    /\ failure = None
    /\ last_retrieve = NoRetrieve(task)
    /\ requests = <<>>
    /\ last_launch = NoLaunch
    /\ http = NoResponse

InitRetrieve ==
    /\ task \in {Task(o, u) : o \in Objectives, u \in Urls}
    /\ is_public = TRUE
    /\ org_id \in OrgIds
    /\ store \in RetrieveStores
    /\ executor = [n \in 1..LaunchMaxAttempts |-> "ok_json"]
    /\ Fresh
    /\ NoDirectCall

\* One call of retrieve_trajectory(task, org_id).
CallRetrieve ==
    /\ call = None
    /\ \E db \in DbRuns : \E r \in retrieve_trajectory(task, org_id, store, db) :
        /\ last_retrieve' = r
        /\ db_run' = db
    /\ call' = "retrieve_trajectory"
    /\ UNCHANGED <<inputs, http, events, steps, wrap_in, wrapped, pc, retrieve_attempts,
                   launch_attempts, enhanced_task, result, failure, requests, last_launch>>

SpecRetrieve == InitRetrieve /\ [][CallRetrieve]_vars

\* The candidate query of the call ran and returned.
QueryReturned ==
    /\ call = "retrieve_trajectory"
    /\ "candidate query" \in Range(last_retrieve.stmts)
    /\ db_run.query = "ok"

\* The row the call selected.
SelectedRows == {t \in store : t.id = last_retrieve.selected}

\* C12: the selected trajectory has the requested start_url, status
\* completed, no error, headless mode, a similarity strictly greater than 0.1
\* (so not one of exactly 0.1) and a successful answer event.
SelectedMeetsEveryCondition ==
    (call = "retrieve_trajectory" /\ last_retrieve.selected # None) =>
        \E t \in SelectedRows :
            LET score == similarity(t.objective, task.objective)
            IN  /\ t.start_url = task.start_url
                /\ t.status = "completed"
                /\ t.error = None
                /\ t.headless = "true"
                /\ 10 * score[1] > score[2]
                /\ HasSuccessfulAnswer(t)

\* C13: among the qualifying candidates retrieval selects one of highest
\* similarity and, among those, the most recent; it selects none only when
\* no candidate qualifies.
SelectsBestCandidate ==
    QueryReturned =>
        LET c == {t \in store : Qualifies(t, task.objective, task.start_url, org_id)}
            score(t) == similarity(t.objective, task.objective)
        IN  /\ (last_retrieve.selected = None) <=> (c = {})
            /\ last_retrieve.selected # None =>
                  \E t \in c :
                      /\ t.id = last_retrieve.selected
                      /\ \A u \in c :
                            /\ score(t)[1] * score(u)[2] >= score(u)[1] * score(t)[2]
                            /\ score(t)[1] * score(u)[2] = score(u)[1] * score(t)[2]
                                  => t.created_at >= u.created_at

\* C13 witness: two candidates tie on similarity and the more recent one is
\* selected over the older one.
SelectsBestWitness ==
    /\ QueryReturned
    /\ \E t, u \in store :
          /\ Qualifies(t, task.objective, task.start_url, org_id)
          /\ Qualifies(u, task.objective, task.start_url, org_id)
          /\ ScoreEqual(similarity(t.objective, task.objective),
                        similarity(u.objective, task.objective))
          /\ t.created_at > u.created_at
          /\ last_retrieve.selected = t.id

\* C20: enhancement is concatenation: the returned objective is the input
\* objective, alone or followed by the wrapped instructions of the selected
\* trajectory, the start_url is the input's, and the input task is not
\* modified.
EnhancementIsConcatenation ==
    /\ [](( call = "retrieve_trajectory" /\ ~last_retrieve.raised ) =>
            LET v == last_retrieve.value
            IN  /\ StartsWith(v.objective, task.objective)
                /\ v.start_url = task.start_url
                /\ \/ v.objective = task.objective
                   \/ \E t \in SelectedRows :
                         /\ Len(InstructionsOf(t)) > 0
                         /\ v.objective = task.objective \o InstructionsOf(t))
    /\ [][task' = task]_vars

\* C20 witness: a call returned an objective longer than the input's.
EnhancementWitness ==
    /\ call = "retrieve_trajectory"
    /\ ~last_retrieve.raised
    /\ Len(last_retrieve.value.objective) > Len(task.objective)

----------------------------------------------------------------------------
\* Direct calls of the formatters: the events query and the loop of
\* get_similar_trajectory on the events of one trajectory, then
\* format_trajectory_as_instructions on its output, twice.

\* Largest number of event rows of the trajectory.
MaxEvents == 3

EventKinds == {"Click", "Scroll", "AnswerOk", "Submit", "Bare", "Call", "Marked", "Malformed"}

MakeEvent(kind, index) ==
    CASE kind = "Click" -> Click(index)
      [] kind = "Scroll" -> Scroll(index)
      [] kind = "AnswerOk" -> AnswerOk(index)
      [] kind = "Submit" -> Submit(index)
      [] kind = "Bare" -> Bare(index)
      [] kind = "Call" -> Call(index)
      [] kind = "Marked" -> Marked(index)
      [] kind = "Malformed" -> Malformed(index)

\* The event rows of one trajectory, as stored: indexes 1..n in any order.
EventSeqs ==
    UNION { { [i \in 1..n |-> MakeEvent(k[i], p[i])] :
                k \in [1..n -> EventKinds],
                p \in {q \in [1..n -> 1..n] : \A i, j \in 1..n : q[i] = q[j] => i = j} }
            : n \in 0..MaxEvents }

run == <<pc, retrieve_attempts, launch_attempts, enhanced_task, result, failure,
         last_retrieve, requests, last_launch>>

InitFormat ==
    /\ task = Task(ObjA, "https://x")
    /\ is_public = TRUE
    /\ org_id = "orgA"
    /\ store = {}
    /\ executor = [n \in 1..LaunchMaxAttempts |-> "ok_json"]
    /\ Fresh
    /\ call = None
    /\ db_run = NoDbRun
    /\ events \in EventSeqs
    /\ steps = <<>>
    /\ wrap_in = <<>>
    /\ wrapped = <<>>

\* The events query and the loop, for the selected trajectory.
FormatEvents ==
    /\ call = None
    /\ LET t  == Trajectory("t", org_id, task.start_url, task.objective, "completed",
                            None, "true", 1, events)
           db == [ext |-> "ok", query |-> "ok", events |-> "ok"]
           g  == FormatSelected(t, db, <<>>)
       IN  IF g.is_none
           THEN /\ call' = "returned_none"
                /\ UNCHANGED <<steps, wrap_in>>
           ELSE /\ call' = "formatted"
                /\ steps' = trajectory_steps(EventRows(t), 1)
                /\ wrap_in' = g.value
    /\ UNCHANGED <<inputs, run, http, db_run, events, wrapped>>

\* format_trajectory_as_instructions(trajectory)
Wrap ==
    /\ call = "formatted"
    /\ wrapped' = format_trajectory_as_instructions(wrap_in)
    /\ call' = "wrapped"
    /\ UNCHANGED <<inputs, run, http, db_run, events, steps, wrap_in>>

\* format_trajectory_as_instructions on what it returned.
WrapAgain ==
    /\ call = "wrapped"
    /\ wrapped' = format_trajectory_as_instructions(wrapped)
    /\ call' = "wrapped_again"
    /\ UNCHANGED <<inputs, run, http, db_run, events, steps, wrap_in>>

NextFormat == FormatEvents \/ Wrap \/ WrapAgain

SpecFormat == InitFormat /\ [][NextFormat]_vars

\* C14: wrapping is idempotent: wrapping the wrapped text returns it
\* unmodified, and the header is never applied twice.
WrappingIsIdempotent ==
    call = "wrapped_again" =>
        /\ wrapped = format_trajectory_as_instructions(wrap_in)
        /\ ~StartsWith(wrapped, header \o header)

\* The rows the events query returns.
ResultRows == {e \in Range(events) : e.type = "AgentEvent" /\ e.kind = "tool_result"}

\* The event row of a line.
RowOf(line) == CHOOSE e \in ResultRows : e.index = line.index

\* C15: no line is emitted for an event whose tool name is or contains
\* "answer"; every emitted line is of an event whose tool name does not.
NoLineForAnswer ==
    call = "formatted" =>
        /\ \A e \in ResultRows :
              "answer" \in Range(e.tool_req.tool_name)
                  => \A i \in 1..Len(steps) : steps[i].index # e.index
        /\ \A i \in 1..Len(steps) :
              /\ \E e \in ResultRows : e.index = steps[i].index
              /\ "answer" \notin Range(RowOf(steps[i]).tool_req.tool_name)

\* C15 witness: lines were emitted for a trajectory that has an event of the
\* answer tool and one of a tool whose name contains "answer".
NoLineForAnswerWitness ==
    /\ call = "formatted"
    /\ Len(steps) > 0
    /\ \E e \in ResultRows : e.tool_req.tool_name = <<"answer">>
    /\ \E e \in ResultRows : /\ "answer" \in Range(e.tool_req.tool_name)
                             /\ e.tool_req.tool_name # <<"answer">>

\* The events that survive: a request payload and a tool name without "answer".
Surviving ==
    {e \in ResultRows : /\ e.tool_req.shape = "dict"
                        /\ "answer" \notin Range(e.tool_req.tool_name)}

\* C16: the lines are numbered 1, 2, ..., k, k the number of surviving
\* events, and appear in ascending index order of their events.
ContiguousNumbering ==
    call = "formatted" =>
        /\ Len(steps) = Cardinality(Surviving)
        /\ \A i \in 1..Len(steps) : steps[i].num = i
        /\ \A i, j \in 1..Len(steps) : i < j => steps[i].index < steps[j].index
        /\ {steps[i].index : i \in 1..Len(steps)} = {e.index : e \in Surviving}

\* C16 witness: three tool-result events, stored out of index order, one of
\* them an answer event, gave exactly two lines, numbered 1 and 2.
ContiguousNumberingWitness ==
    /\ call = "formatted"
    /\ Cardinality(ResultRows) = 3
    /\ Len(events) = 3
    /\ events[1].index > events[2].index
    /\ Cardinality({e \in ResultRows : e.tool_req.tool_name = <<"answer">>}) = 1
    /\ Len(steps) = 2
    /\ steps[1].num = 1
    /\ steps[2].num = 2

----------------------------------------------------------------------------
\* The order and the number of the attempts of a run.

\* C17: the two steps are strictly sequential: a launch attempt starts only
\* after a retrieval attempt has returned, every launch attempt is passed the
\* task retrieval returned, and no retrieval attempt starts after the first
\* launch attempt.
StrictlySequential ==
    /\ [](launch_attempts > 0 =>
            /\ retrieve_attempts >= 1
            /\ ~last_retrieve.raised
            /\ last_retrieve.stmts # <<>>
            /\ enhanced_task = last_retrieve.value
            /\ \A i \in 1..Len(requests) :
                  requests[i].payload.task = last_retrieve.value)
    /\ [][launch_attempts' > launch_attempts =>
            /\ pc = "launch"
            /\ retrieve_attempts >= 1
            /\ ~last_retrieve.raised
            /\ last_retrieve.stmts # <<>>
            /\ UNCHANGED <<retrieve_attempts, last_retrieve, enhanced_task>>]_vars
    /\ [][launch_attempts > 0 => UNCHANGED <<retrieve_attempts, last_retrieve>>]_vars

\* C17 witness: two launch attempts sent the enhanced task retrieval
\* returned on its second attempt.
StrictlySequentialWitness ==
    /\ retrieve_attempts = 2
    /\ Len(requests) = 2
    /\ last_retrieve.value # task
    /\ requests[2].payload.task = last_retrieve.value

\* C18: retrieval is attempted at most 3 times and launch at most 2 times,
\* launch's budget being the smaller, and a step is attempted again only
\* after its previous attempt failed (raised or timed out).
BoundedRetries ==
    /\ [](/\ retrieve_attempts <= 3
          /\ launch_attempts <= 2
          /\ LaunchMaxAttempts < RetrieveMaxAttempts)
    /\ [][retrieve_attempts' # retrieve_attempts =>
            /\ retrieve_attempts' = retrieve_attempts + 1
            /\ pc = "retrieve"
            /\ pc' = "retrieve" => (last_retrieve'.raised \/ last_retrieve' = last_retrieve)]_vars
    /\ [][launch_attempts' # launch_attempts =>
            /\ launch_attempts' = launch_attempts + 1
            /\ pc = "launch"
            /\ pc' = "launch" => (last_launch'.raised \/ last_launch' = last_launch)]_vars

\* C18 witness: a run used both budgets to the full.
BoundedRetriesWitness ==
    /\ retrieve_attempts = 3
    /\ launch_attempts = 2
    /\ pc = "raised"

\* Runs of one task over a store of at most one row.
InitFair ==
    /\ Init
    /\ task = Task(ObjA, "https://x")
    /\ is_public
    /\ org_id \in {None, "orgA"}
    /\ Cardinality(store) <= 1

\* start_to_close_timeout is a hard bound on each attempt: an attempt that
\* has not returned or raised is eventually ended by its timeout.
SpecFair ==
    InitFair /\ [][Next]_vars /\ WF_vars(RetrieveTimeout) /\ WF_vars(LaunchTimeout)

Completed == pc = "returned" /\ result[1].success

Failed == pc = "raised" \/ (pc = "returned" /\ ~result[1].success)

\* C19: every run eventually reaches exactly one of Completed and Failed, and
\* takes no step after reaching it.
RunTerminates ==
    /\ <>(Completed \/ Failed)
    /\ [](~(Completed /\ Failed))
    /\ [][~(Completed \/ Failed)]_vars

\* C19 witness: a run failed after the longest sequence of attempts.
RunTerminatesWitness ==
    /\ Failed
    /\ failure = "launch_agent"
    /\ retrieve_attempts = RetrieveMaxAttempts
    /\ launch_attempts = LaunchMaxAttempts

----------------------------------------------------------------------------
\* Nothing to replay.

\* The event rows of t that the formatting loop does not skip.
Replayable(t) ==
    {e \in Range(t.events) : /\ e.type = "AgentEvent"
                             /\ e.kind = "tool_result"
                             /\ e.tool_req.shape \notin {"null", "str_bad"}
                             /\ "answer" \notin Range(e.tool_req.tool_name)}

\* C21: if no candidate is selected, or the selected trajectory has no
\* events, or every one of its events is skipped, retrieve_trajectory returns
\* the task unchanged; the header is never appended with no step line after it.
NothingInjectedWithoutSteps ==
    (call = "retrieve_trajectory" /\ ~last_retrieve.raised) =>
        /\ ( \/ last_retrieve.selected = None
             \/ \A t \in SelectedRows : t.events = <<>> \/ Replayable(t) = {} )
              => last_retrieve.value = task
        /\ Contains(last_retrieve.value.objective, header) =>
              \E t \in SelectedRows :
                  /\ Replayable(t) # {}
                  /\ Len(StepsText(trajectory_steps(EventRows(t), 1))) > 0
                  /\ last_retrieve.value.objective
                        = task.objective \o header \o StepsText(trajectory_steps(EventRows(t), 1))

\* C21 witness: a trajectory was selected, the loop skipped every one of its
\* events (one without a request, two of answer tools), and the task came
\* back unchanged.
NothingInjectedWitness ==
    /\ call = "retrieve_trajectory"
    /\ ~last_retrieve.raised
    /\ db_run.events = "ok"
    /\ last_retrieve.selected = "t15"
    /\ \A t \in SelectedRows : Len(t.events) = 3 /\ Replayable(t) = {}
    /\ last_retrieve.value = task

----------------------------------------------------------------------------
\* Tool names through the formatting loop: one event row of any tool name.

\* Largest number of tokens of a tool name.
MaxName == 3

NameTokens == {"click", "_localizer", "_web", "_tab", "x"}

ToolNames == UNION {[1..n -> NameTokens] : n \in 0..MaxName}

Named(index, name) ==
    Event(index, "AgentEvent", "tool_result",
          ToolReq("dict", TRUE, name, <<>>),
          ToolResult("null", FALSE, "none", FALSE, FALSE))

InitNames ==
    /\ task = Task(ObjA, "https://x")
    /\ is_public = TRUE
    /\ org_id = "orgA"
    /\ store = {}
    /\ executor = [n \in 1..LaunchMaxAttempts |-> "ok_json"]
    /\ Fresh
    /\ call = None
    /\ db_run = NoDbRun
    /\ events \in {<<Named(1, name)>> : name \in ToolNames}
    /\ steps = <<>>
    /\ wrap_in = <<>>
    /\ wrapped = <<>>

SpecNames == InitNames /\ [][NextFormat]_vars

EndsWith(s, pat) ==
    /\ Len(pat) <= Len(s)
    /\ SubSeq(s, Len(s) - Len(pat) + 1, Len(s)) = pat

DropLast(s, n) == SubSeq(s, 1, Len(s) - n)

\* C22: the simplified name is the tool name with one known suffix,
\* "_localizer_web" or "_web", removed from its end if it ends with one, and
\* the tool name unchanged otherwise.
StripsOnlyTrailingSuffix ==
    (call = "formatted" /\ Len(steps) = 1 /\ Len(events) = 1) =>
        LET name == events[1].tool_req.tool_name
            simplified == steps[1].name
        IN  IF EndsWith(name, <<"_localizer", "_web">>)
            THEN simplified \in {DropLast(name, 2), DropLast(name, 1)}
            ELSE IF EndsWith(name, <<"_web">>)
            THEN simplified = DropLast(name, 1)
            ELSE simplified = name

====
